---- MODULE Spec2Model ----
(***************************************************************************)
(* A model of pyIcePAP's motion scope (icepap/motion.py, icepap/group.py)  *)
(* and of its line-oriented TCP transport (icepap/tcp.py).                 *)
(*                                                                         *)
(* Several specifications share the module:                                *)
(*   MotionSpec     a caller running `with motion: <body>` over a Group    *)
(*   TransportSpec  a caller issuing operations on one RawTCP instance     *)
(*   ClientSpec     a caller issuing operations on one TCP instance, the   *)
(*                  reconnecting client built on RawTCP                    *)
(*   GroupSpec      a caller building Groups and waiting for them to stop  *)
(*   SettleSpec     a caller polling a Motion until its move is over       *)
(* Each leaves the variables of the other parts at their initial values.   *)
(***************************************************************************)
EXTENDS Integers, Sequences, FiniteSets, TLC

(* ------------------------------ bounds -------------------------------- *)

\* number of axes in the group
NAxes == 2
\* how many times the body of the scope calls motion.start() itself
MaxBodyStarts == 1

Axes == 1..NAxes

None == "None"

(* ========================= MOTION SCOPE ================================ *)

VARIABLES
    mpc,            \* position of the caller in `with motion: <body>`
    exc,            \* exc_value handed to __exit__: None or the body's fault
    propagated,     \* what leaves the with statement: None or a fault
    sync_stop,      \* BaseMotion.sync_stop
    on_start_stop,  \* behaviour of the on_start_stop hook when called
    on_end_stop,    \* behaviour of the on_end_stop hook when called
    hookArg,        \* exc_value the on_start_stop hook was called with
    bodyStarts,     \* motion.start() calls made by the body
    moving,         \* controller: axis -> state.is_moving()
    commanded,      \* controller: axis -> a move command is outstanding
    log             \* controller commands, hook calls and waits, in order

mvars == <<mpc, exc, propagated, sync_stop, on_start_stop, on_end_stop,
           hookArg, bodyStarts, moving, commanded, log>>

VARIABLES
    tstate,     \* RawTCP._state
    buffer,     \* RawTCP._buffer
    sock,       \* RawTCP._sock: "socket" or None
    eol,        \* RawTCP.eol
    ttimeout,   \* RawTCP.timeout
    stream0,    \* every byte the peer sends on this connection, in order
    wire,       \* the part of stream0 no recv has returned yet
    tpc,        \* "idle", or "stream" inside _readline's loop over stream()
    cur,        \* the call in progress: its name, the state it found, its I/O,
                \* the timeout it was given
    budget,     \* stream()'s local variable `timeout`
    elapsed,    \* time really spent waiting inside the call in progress
    got,        \* the values readline calls returned, in order
    rawread,    \* some read / write_read call has returned bytes
    last,       \* the last call that ended: name, state found, outcome
    live        \* sockets created and not closed with socket.close()

tvars == <<tstate, buffer, sock, eol, ttimeout, stream0, wire, tpc, cur,
           budget, elapsed, got, rawread, last, live>>

VARIABLES
    status,         \* Motion.status: axis -> state.is_moving() as last read
    polled,         \* update() has been called since the move was started
    seenMoving,     \* some update() returned a status with an axis moving
    observed,       \* what in_motion() returned since the last update()
    start_positions,    \* Motion.start_positions: axis -> position
    target_positions    \* Motion.target_positions: axis -> position

svars == <<status, polled, seenMoving, observed, start_positions,
           target_positions>>

VARIABLES
    rawtcp,             \* TCP._sock: None or "RawTCP" (tvars hold its state)
    connection_counter, \* TCP.connection_counter
    reachable,          \* the endpoint accepts connections
    cpc,                \* position inside ensure_connection's wrapper
    ccall,              \* the TCP call in progress
    clast,              \* the last TCP call that ended
    owed,       \* commands write_readline has written on the connection
                \* whose reply line no call has returned (2: two or more)
    expired     \* RawTCP.timeout has run out since its _connection_time

cvars == <<rawtcp, connection_counter, reachable, cpc, ccall, clast, owed,
           expired>>

VARIABLES
    gpc,        \* position of the caller of the Group functions
    gin,        \* the argument of Group(...) or group(...)
    gout,       \* what the call returned or raised
    wtimeout,   \* wait_stopped's argument `timeout`
    welapsed,   \* time since wait_stopped took `start`
    wmoving0,   \* Group.is_moving as wait_stopped's first test read it
    wslept,     \* the last wait_stopped call has slept
    wresult     \* what the last wait_stopped call returned

gvars == <<gpc, gin, gout, wtimeout, welapsed, wmoving0, wslept, wresult>>

VARIABLES
    loop_nb,            \* BackAndForth.loop_nb
    ranges,             \* BackAndForth.ranges: axis -> amplitude
    initial_positions,  \* BackAndForth.initial_positions: the anchor
    motion,             \* BackAndForth.motion: None or the Motion of the leg
    pos,                \* the controller: axis -> position
    goal,               \* the controller: axis -> position last commanded
    bop                 \* the BackAndForth method that made the last step

bvars == <<loop_nb, ranges, initial_positions, motion, pos, goal, bop>>

VARIABLES
    power,      \* the controller: axis -> power flag
    on,         \* ensure_power's argument `on`
    to_power,   \* ensure_power's list `to_power`, as a set of axes
    plog,       \* the set_power commands sent: <<axes, value>> each
    fpc,        \* position inside the flow that runs the guarded block
    flow,       \* the flow: "umove", "pmove" or "pshake"
    fexc        \* the fault that is leaving the flow, or None

pvars == <<power, on, to_power, plog, fpc, flow, fexc>>

vars == <<mvars, tvars, svars, cvars, gvars, bvars, pvars>>

\* The fields of the motion scope, without the controller and the log.
scope == <<mpc, exc, propagated, sync_stop, on_start_stop, on_end_stop,
           hookArg, bodyStarts>>

\* What the actions of one part leave alone.
beyondMotion == <<tvars, svars, cvars, gvars, bvars, pvars>>
beyondTransport == <<mvars, svars, cvars, gvars, bvars, pvars>>
beyondClient == <<mvars, svars, gvars, bvars, pvars>>
beyondGroup == <<scope, tvars, svars, cvars, bvars, pvars>>
beyondShake == <<scope, tvars, cvars, gvars, pvars>>

\* The positions a caller asks a Motion to move its axes to.
Targets == {-1, 1}

\* Faults the body of the scope can raise.  KeyboardInterrupt is how a
\* cooperative cancellation reaches the scope (cli.py:20).
BodyFaults == {"Error", "KeyboardInterrupt"}

\* What a hook does when called: return, raise an Exception subclass, or
\* raise a BaseException that is no Exception (KeyboardInterrupt, SystemExit).
HookBehaviours == {"returns", "Exception", "BaseException"}

\* The fault a hook raises, as seen by the caller of the hook.
HookFault(which) ==
    IF which = "on_start_stop" THEN "fault of on_start_stop"
    ELSE "fault of on_end_stop"

\* `try: return hook(*args)  except Exception as err: print(err)`:
\* TRUE when control continues after the call, FALSE when the hook's fault
\* leaves _start_stop / _end_stop.
swallowed(beh) == beh \in {"returns", "Exception"}

\* Group.is_moving: any(state.is_moving() for state in self.states)
is_moving_first == moving[1]
is_moving == \E a \in Axes : moving[a]

\* controller.move(args): every axis of the group is commanded and moves.
controller_move ==
    /\ moving' = [a \in Axes |-> TRUE]
    /\ commanded' = [a \in Axes |-> TRUE]

\* controller.stop(axes): the move command is cancelled; the axes keep
\* moving (decelerating) until they settle.
controller_stop ==
    /\ commanded' = [a \in Axes |-> FALSE]
    /\ UNCHANGED moving

\* Group.start_move(positions): one batched move command.
start_move ==
    /\ controller_move
    /\ log' = Append(log, "move")

\* BaseMotion.__exit__: `if exc_value is not None: self.stop(...)`
exit_runs_stop_always == TRUE
exit_runs_stop == exc # None

\* BaseMotion.stop line 30: `if self.sync_stop: self.group.wait_stopped()`
stop_waits == sync_stop

MotionInit ==
    /\ mpc = "constructed"
    /\ exc = None
    /\ propagated = None
    /\ sync_stop \in BOOLEAN
    /\ on_start_stop \in HookBehaviours
    /\ on_end_stop \in HookBehaviours
    /\ hookArg = "unset"
    /\ bodyStarts = 0
    /\ moving = [a \in Axes |-> FALSE]
    /\ commanded = [a \in Axes |-> FALSE]
    /\ log = <<>>
    /\ status = [a \in Axes |-> FALSE]
    /\ polled = FALSE
    /\ seenMoving = FALSE
    /\ observed = "unset"
    /\ start_positions = [a \in Axes |-> 0]
    /\ target_positions \in [Axes -> Targets]

\* BaseMotion.__enter__: self.start(); return self
Enter ==
    /\ UNCHANGED beyondMotion
    /\ mpc = "constructed"
    /\ start_move
    /\ mpc' = "body"
    /\ UNCHANGED <<exc, propagated, sync_stop, on_start_stop, on_end_stop,
                   hookArg, bodyStarts>>

\* The body calls motion.start() again (cli.py _umove does).
BodyStart ==
    /\ UNCHANGED beyondMotion
    /\ mpc = "body"
    /\ bodyStarts < MaxBodyStarts
    /\ start_move
    /\ bodyStarts' = bodyStarts + 1
    /\ UNCHANGED <<mpc, exc, propagated, sync_stop, on_start_stop,
                   on_end_stop, hookArg>>

\* The body raises a fault: the with statement calls __exit__(type, value, tb).
BodyRaise ==
    /\ UNCHANGED beyondMotion
    /\ mpc = "body"
    /\ \E f \in BodyFaults : exc' = f
    /\ mpc' = "exit"
    /\ UNCHANGED <<propagated, sync_stop, on_start_stop, on_end_stop,
                   hookArg, bodyStarts, moving, commanded, log>>

\* The body ends normally: the with statement calls __exit__(None, None, None).
BodyEnd ==
    /\ UNCHANGED beyondMotion
    /\ mpc = "body"
    /\ mpc' = "exit"
    /\ UNCHANGED <<exc, propagated, sync_stop, on_start_stop, on_end_stop,
                   hookArg, bodyStarts, moving, commanded, log>>

\* BaseMotion.__exit__ up to and including stop()'s call of _start_stop.
Exit ==
    /\ UNCHANGED beyondMotion
    /\ mpc = "exit"
    /\ IF exit_runs_stop
       THEN /\ log' = Append(log, "on_start_stop")
            /\ hookArg' = exc
            /\ IF swallowed(on_start_stop)
               THEN mpc' = "group_stop" /\ UNCHANGED propagated
               ELSE /\ mpc' = "raised"
                    /\ propagated' = HookFault("on_start_stop")
       ELSE /\ mpc' = "returned"
            /\ UNCHANGED <<log, hookArg, propagated>>
    /\ UNCHANGED <<exc, sync_stop, on_start_stop, on_end_stop, bodyStarts,
                   moving, commanded>>

\* BaseMotion.stop lines 29-31: self.group.stop(), then the call of
\* self.group.wait_stopped() when sync_stop.
GroupStop ==
    /\ UNCHANGED beyondMotion
    /\ mpc = "group_stop"
    /\ controller_stop
    /\ IF stop_waits
       THEN /\ log' = log \o <<"group.stop", "wait_stopped">>
            /\ mpc' = "poll"
       ELSE /\ log' = Append(log, "group.stop")
            /\ mpc' = "end_stop"
    /\ UNCHANGED <<exc, propagated, sync_stop, on_start_stop, on_end_stop,
                   hookArg, bodyStarts>>

\* Group.wait_stopped(timeout=None): `while self.is_moving:` -- one test of
\* the loop condition; `return True` when it is false.
WaitStoppedPoll ==
    /\ UNCHANGED beyondMotion
    /\ mpc = "poll"
    /\ IF is_moving
       THEN mpc' = "sleep" /\ UNCHANGED log
       ELSE /\ mpc' = "end_stop"
            /\ log' = Append(log, "wait_stopped.return")
    /\ UNCHANGED <<exc, propagated, sync_stop, on_start_stop, on_end_stop,
                   hookArg, bodyStarts, moving, commanded>>

\* Group.wait_stopped: time.sleep(interval); `if timeout:` is false.
WaitStoppedSleep ==
    /\ UNCHANGED beyondMotion
    /\ mpc = "sleep"
    /\ mpc' = "poll"
    /\ UNCHANGED <<exc, propagated, sync_stop, on_start_stop, on_end_stop,
                   hookArg, bodyStarts, moving, commanded, log>>

\* BaseMotion.stop lines 32-33 and the return of __exit__: _end_stop(), then
\* __exit__ returns None, so the with statement re-raises the body's fault.
EndStop ==
    /\ UNCHANGED beyondMotion
    /\ mpc = "end_stop"
    /\ log' = Append(log, "on_end_stop")
    /\ mpc' = "raised"
    /\ propagated' = IF swallowed(on_end_stop)
                     THEN exc
                     ELSE HookFault("on_end_stop")
    /\ UNCHANGED <<exc, sync_stop, on_start_stop, on_end_stop, hookArg,
                   bodyStarts, moving, commanded>>

\* The controller: a moving axis comes to rest (target reached, or stopped).
AxisSettle ==
    /\ UNCHANGED beyondMotion
    /\ \E a \in Axes :
          /\ moving[a]
          /\ moving' = [moving EXCEPT ![a] = FALSE]
          /\ commanded' = [commanded EXCEPT ![a] = FALSE]
    /\ UNCHANGED <<mpc, exc, propagated, sync_stop, on_start_stop,
                   on_end_stop, hookArg, bodyStarts, log>>

\* Group.get_states(): the state of each axis of the group as the controller
\* reports it now, here its is_moving().
get_states == [a \in Axes |-> moving[a]]

\* Motion.in_motion: any(status.state.is_moving() for status in self.status)
in_motion_first == status[1]
in_motion_live == \E a \in Axes : moving[a]
in_motion == \E a \in Axes : status[a]

abs(n) == IF n < 0 THEN -n ELSE n

\* Motion.displacements: abs(target - start) for each axis
displacements ==
    [a \in Axes |-> abs(target_positions[a] - start_positions[a])]

\* Motion.update(), called by the body of the scope:
\* `self.status = self._get_status(); return self.status`
Update ==
    /\ UNCHANGED <<mvars, tvars, cvars, gvars, bvars, pvars>>
    /\ mpc = "body"
    /\ status' = get_states
    /\ polled' = TRUE
    /\ seenMoving' = (seenMoving \/ \E a \in Axes : moving[a])
    /\ observed' = "unset"
    /\ UNCHANGED <<start_positions, target_positions>>

\* Motion.in_motion(), called by the body of the scope; `observed` keeps
\* what it returned.
InMotion ==
    /\ UNCHANGED <<mvars, tvars, cvars, gvars, bvars, pvars>>
    /\ mpc = "body"
    /\ observed' = (IF in_motion THEN "True" ELSE "False")
    /\ UNCHANGED <<status, polled, seenMoving, start_positions,
                   target_positions>>

MotionNext ==
    \/ Enter
    \/ BodyStart
    \/ BodyRaise
    \/ BodyEnd
    \/ Exit
    \/ GroupStop
    \/ WaitStoppedPoll
    \/ WaitStoppedSleep
    \/ EndStop
    \/ AxisSettle
    \/ Update
    \/ InMotion

(* ========================== BACK AND FORTH ============================= *)

MaxLoops == 3

\* The amplitudes and the anchors a caller gives a BackAndForth.
Ranges == {2, 3}
Anchors == {0, 2}

\* int(x) for x = n / 2: Python's int() drops the fraction, towards zero.
int_half(n) == IF n >= 0 THEN n \div 2 ELSE -((-n) \div 2)

\* BackAndForth.start line 124: `factor = 1 if self.loop_nb % 2 else -1`
factor_fixed(n) == -1
factor(n) == IF n % 2 = 1 THEN 1 ELSE -1

\* BackAndForth._new_motion(factor):
\* `int(initial + factor * rng / 2)` for each axis
new_targets(f) ==
    [a \in Axes |-> int_half(2 * initial_positions[a] + f * ranges[a])]

\* BackAndForth.in_motion: `return True`
BackAndForth_in_motion == TRUE

\* BackAndForth.displacements: `return self.ranges`
BackAndForth_displacements == ranges

\* `not self.motion.in_motion()` on the status update() has just stored
rests_first(st) == ~st[1]
rests(st) == \A a \in Axes : ~st[a]

\* BackAndForth.start(): a new Motion for the leg (its constructor reads the
\* positions and the states of the axes), the counter, and the leg's
\* Motion.start(), which is group.start_move(target_positions).
BackAndForth_start ==
    /\ motion' = "Motion"
    /\ target_positions' = new_targets(factor(loop_nb))
    /\ start_positions' = pos
    /\ status' = get_states
    /\ polled' = FALSE
    /\ loop_nb' = loop_nb + 1
    /\ start_move
    /\ goal' = target_positions'

\* BackAndForth.update(): before the first start() the update of the initial
\* Motion; afterwards the update of the leg and, when the leg reports no
\* axis moving, start().
BackAndForth_update ==
    IF motion # None /\ rests(get_states)
    THEN BackAndForth_start
    ELSE /\ status' = get_states
         /\ polled' = TRUE
         /\ UNCHANGED <<motion, target_positions, start_positions, loop_nb,
                        moving, commanded, log, goal>>

\* BackAndForth(obj, ranges): the anchor is where the axes are, and the
\* initial Motion, which the properties show until the first start(), has
\* the targets of factor -1.
ShakeInit ==
    /\ loop_nb = 0
    /\ ranges \in [Axes -> Ranges]
    /\ initial_positions \in [Axes -> Anchors]
    /\ pos = initial_positions
    /\ goal = initial_positions
    /\ motion = None
    /\ bop = "none"
    /\ status = [a \in Axes |-> FALSE]
    /\ polled = FALSE
    /\ seenMoving = FALSE
    /\ observed = "unset"
    /\ start_positions = initial_positions
    /\ target_positions = new_targets(-1)

\* A caller calls start().
ShakeStart ==
    /\ UNCHANGED beyondShake
    /\ loop_nb < MaxLoops
    /\ BackAndForth_start
    /\ bop' = "start"
    /\ UNCHANGED <<ranges, initial_positions, pos, seenMoving, observed>>

\* A caller calls update().
ShakeUpdate ==
    /\ UNCHANGED beyondShake
    /\ (motion # None /\ rests(get_states)) => loop_nb < MaxLoops
    /\ BackAndForth_update
    /\ bop' = "update"
    /\ UNCHANGED <<ranges, initial_positions, pos, seenMoving, observed>>

\* A caller calls in_motion(); `observed` keeps what it returned.
ShakeInMotion ==
    /\ UNCHANGED beyondShake
    /\ observed' = (IF BackAndForth_in_motion THEN "True" ELSE "False")
    /\ bop' = "in_motion"
    /\ UNCHANGED <<status, polled, seenMoving, start_positions,
                   target_positions, moving, commanded, log, loop_nb, ranges,
                   initial_positions, motion, pos, goal>>

\* The controller: a moving axis comes to rest, at the position it was
\* commanded to or, after a stop command, where it is.
ShakeSettle ==
    /\ UNCHANGED beyondShake
    /\ \E a \in Axes :
          /\ moving[a]
          /\ moving' = [moving EXCEPT ![a] = FALSE]
          /\ commanded' = [commanded EXCEPT ![a] = FALSE]
          /\ pos' = [pos EXCEPT ![a] = IF commanded[a] THEN goal[a] ELSE @]
    /\ bop' = "none"
    /\ UNCHANGED <<svars, log, loop_nb, ranges, initial_positions, motion,
                   goal>>

ShakeNext ==
    \/ ShakeStart
    \/ ShakeUpdate
    \/ ShakeInMotion
    \/ ShakeSettle

(* ====================== POWER GUARD AND FLOWS ========================== *)

\* The flows of cli.py that run a motion inside the power guard.
Flows == {"umove", "pmove", "pshake"}

\* ensure_power line 33:
\* `[addr for addr, power in zip(g.axes, g.powers) if power != on]`
differing_all == Axes
differing == {a \in Axes : power[a] # on}

\* controller.set_power(axes, value): one command; the axes named take the
\* value, the others keep theirs.
set_power(axs, value) ==
    /\ power' = [a \in Axes |-> IF a \in axs THEN value ELSE power[a]]
    /\ plog' = Append(plog, [axes |-> axs, value |-> value])

\* The flow has built the guard and the motion (a Motion at rest for _umove
\* and _pmove, a BackAndForth for _pshake) and has entered neither.
FlowInit ==
    /\ flow \in Flows
    /\ power \in [Axes -> BOOLEAN]
    /\ on \in BOOLEAN
    /\ to_power = {}
    /\ plog = <<>>
    /\ fpc = "begin"
    /\ fexc = None
    /\ IF flow = "pshake"
       THEN ShakeInit
       ELSE /\ status = [a \in Axes |-> FALSE]
            /\ polled = FALSE
            /\ seenMoving = FALSE
            /\ observed = "unset"
            /\ start_positions = [a \in Axes |-> 0]
            /\ target_positions \in [Axes -> Targets]
            /\ loop_nb = 0
            /\ ranges = [a \in Axes |-> 0]
            /\ initial_positions = [a \in Axes |-> 0]
            /\ motion = None
            /\ pos = [a \in Axes |-> 0]
            /\ goal = [a \in Axes |-> 0]
            /\ bop = "none"

\* ensure_power up to `yield g`, run when the with statement enters the guard.
FlowPowerEnter ==
    /\ UNCHANGED <<mvars, svars, bvars, tvars, cvars, gvars>>
    /\ fpc = "begin"
    /\ to_power' = differing
    /\ IF differing # {}
       THEN set_power(differing, on)
       ELSE UNCHANGED <<power, plog>>
    /\ fpc' = "entered"
    /\ UNCHANGED <<on, flow, fexc>>

\* BaseMotion.__enter__ of the flow's motion: self.start().
FlowMotionEnter ==
    /\ UNCHANGED <<tvars, cvars, gvars>>
    /\ fpc = "entered"
    /\ mpc = "constructed"
    /\ IF flow = "pshake"
       THEN /\ BackAndForth_start
            /\ bop' = "start"
            /\ UNCHANGED <<ranges, initial_positions, pos, seenMoving,
                           observed>>
       ELSE /\ start_move
            /\ goal' = target_positions
            /\ UNCHANGED <<svars, loop_nb, ranges, initial_positions, motion,
                           pos, bop>>
    /\ mpc' = "body"
    /\ fpc' = (IF flow = "umove" THEN "second_start" ELSE "body")
    /\ UNCHANGED <<exc, propagated, sync_stop, on_start_stop, on_end_stop,
                   hookArg, bodyStarts>>
    /\ UNCHANGED <<power, on, to_power, plog, flow, fexc>>

\* _umove line 52: motion.start(), after the scope has been entered.
FlowSecondStart ==
    /\ UNCHANGED <<scope, svars, bvars, tvars, cvars, gvars>>
    /\ fpc = "second_start"
    /\ mpc = "body"
    /\ start_move
    /\ fpc' = "body"
    /\ UNCHANGED <<power, on, to_power, plog, flow, fexc>>

\* _umove lines 55-60: `while motion.in_motion():` -- one test of the loop
\* condition; the loop body sleeps and prints, and calls no update().
FlowUmoveTest ==
    /\ UNCHANGED <<svars, bvars, pvars, tvars, cvars, gvars>>
    /\ fpc = "body"
    /\ flow = "umove"
    /\ mpc = "body"
    /\ mpc' = (IF in_motion THEN "body" ELSE "exit")
    /\ UNCHANGED <<exc, propagated, sync_stop, on_start_stop, on_end_stop,
                   hookArg, bodyStarts, moving, commanded, log>>

\* _pmove lines 77-83 and _pshake lines 101-107, one turn of the loop:
\* `progbar.update(motion.update()); in_motion = motion.in_motion()`, and
\* the end of the with block when in_motion is false.
FlowPoll ==
    /\ UNCHANGED <<pvars, tvars, cvars, gvars>>
    /\ fpc = "body"
    /\ flow \in {"pmove", "pshake"}
    /\ mpc = "body"
    /\ IF flow = "pshake"
       THEN /\ rests(get_states) => loop_nb < MaxLoops
            /\ BackAndForth_update
            /\ bop' = "update"
            /\ mpc' = (IF BackAndForth_in_motion THEN "body" ELSE "exit")
            /\ UNCHANGED <<ranges, initial_positions, pos, seenMoving,
                           observed>>
       ELSE /\ status' = get_states
            /\ polled' = TRUE
            /\ mpc' = (IF rests(get_states) THEN "exit" ELSE "body")
            /\ UNCHANGED <<seenMoving, observed, start_positions,
                           target_positions, bvars, moving, commanded, log>>
    /\ UNCHANGED <<exc, propagated, sync_stop, on_start_stop, on_end_stop,
                   hookArg, bodyStarts>>

\* The with statement leaves the guard after the motion scope: the generator
\* of ensure_power is resumed after `yield g` when the block ended normally,
\* and has the fault thrown into it at `yield g` when the block raised.
FlowPowerExit ==
    /\ UNCHANGED <<mvars, svars, bvars, tvars, cvars, gvars>>
    /\ fpc \in {"second_start", "body"}
    /\ mpc \in {"returned", "raised"}
    /\ IF mpc = "returned"
       THEN /\ IF to_power # {}
               THEN set_power(to_power, ~on)
               ELSE UNCHANGED <<power, plog>>
            /\ fexc' = None
       ELSE /\ UNCHANGED <<power, plog>>
            /\ fexc' = propagated
    /\ fpc' = (IF flow = "umove" THEN "done" ELSE "cleanup")
    /\ UNCHANGED <<on, to_power, flow>>

\* _pmove line 87 and _pshake line 111:
\* `finally: progbar.update(motion.update())`
FlowFinally ==
    /\ fpc = "cleanup"
    /\ IF flow = "pshake"
       THEN /\ rests(get_states) => loop_nb < MaxLoops
            /\ BackAndForth_update
            /\ bop' = "update"
            /\ UNCHANGED <<ranges, initial_positions, pos, seenMoving,
                           observed>>
       ELSE /\ status' = get_states
            /\ polled' = TRUE
            /\ UNCHANGED <<seenMoving, observed, start_positions,
                           target_positions, bvars, moving, commanded, log>>
    /\ fpc' = "done"
    /\ UNCHANGED <<scope, tvars, cvars, gvars>>
    /\ UNCHANGED <<power, on, to_power, plog, flow, fexc>>

FlowNext ==
    \/ FlowPowerEnter
    \/ FlowMotionEnter
    \/ FlowSecondStart
    \/ FlowUmoveTest
    \/ FlowPoll
    \/ BodyRaise
    \/ Exit
    \/ GroupStop
    \/ WaitStoppedPoll
    \/ WaitStoppedSleep
    \/ EndStop
    \/ FlowPowerExit
    \/ FlowFinally
    \/ ShakeSettle

(* ============================ TRANSPORT ================================ *)

\* ConnectionState: OPENING, OPEN, CLOSED = range(3)
OPENING == 0
OPEN == 1
CLOSED == 2

\* number of lines the peer sends, and the largest chunk one recv returns
MaxLines == 2
MaxChunk == 3
\* the timeout (in ticks) a caller passes, and how many ticks of waiting
\* before bytes arrive one readline call is followed through
MaxTimeout == 1
MaxElapsed == 2

\* An optional timeout: <<>> is Python's None, <<t>> is t ticks.
NoTimeout == <<>>
Timeouts == {NoTimeout, <<MaxTimeout>>}

NoCall == [op |-> None, pre |-> OPENING, io |-> FALSE, timeout |-> NoTimeout]
NoLast == [op |-> None, pre |-> OPENING, result |-> None, io |-> FALSE]

Min(a, b) == IF a < b THEN a ELSE b

\* bytes.partition(sep): split at the first occurrence of sep.
partition(buf, sep) ==
    LET n == Len(sep)
        hits == {i \in 1..(Len(buf) - n + 1) : SubSeq(buf, i, i + n - 1) = sep}
    IN  IF hits = {}
        THEN [data |-> buf, eo |-> <<>>, left |-> <<>>]
        ELSE LET i == CHOOSE k \in hits : \A j \in hits : k <= j
             IN  [data |-> SubSeq(buf, 1, i - 1),
                  eo   |-> sep,
                  left |-> SubSeq(buf, i + n, Len(buf))]

\* _readline lines 150 and 156: `self._buffer = left`
keep_none(p) == <<>>
keep_left(p) == p.left

\* RawTCP._wait_open in state OPENING.  The remaining time is self.timeout
\* less the time since the connection attempt: once that is negative, select
\* raises ValueError.  Otherwise wait_open(sock, timeout): the socket became
\* writable, or the wait ended with no writable socket and SO_ERROR clear
\* (Timeout) or set (to_error).  With timeout None select only returns once
\* the socket is writable.
WaitOutcomes ==
    IF tstate # OPENING \/ ttimeout = NoTimeout THEN {"ready"}
    ELSE {"ready", "Timeout", "ConnectionRefused", "ValueError"}

\* check_open, with RawTCP._wait_open inlined: whether the wrapped function
\* runs, the state it runs in (or is left in), the fault raised otherwise.
check_open_unguarded(st, w) ==
    IF st = OPENING /\ w # "ready"
    THEN [ok |-> FALSE, state |-> OPENING, fault |-> w, io |-> TRUE]
    ELSE [ok |-> TRUE, state |-> IF st = OPENING THEN OPEN ELSE st,
          fault |-> None, io |-> st = OPENING]
check_open(st, w) ==
    IF st = CLOSED
    THEN [ok |-> FALSE, state |-> CLOSED, fault |-> "EBADF", io |-> FALSE]
    ELSE IF st = OPENING
    THEN IF w = "ready"
         THEN [ok |-> TRUE, state |-> OPEN, fault |-> None, io |-> TRUE]
         ELSE [ok |-> FALSE, state |-> OPENING, fault |-> w, io |-> TRUE]
    ELSE [ok |-> TRUE, state |-> OPEN, fault |-> None, io |-> FALSE]

\* RawTCP.close lines 167-174: `try: shutdown(); close()  except OSError:
\* pass  finally: self._sock = None`.  When shutdown raises, close() is
\* skipped: the socket is dropped without having been closed.
shutdown_close == IF sock = None THEN {live} ELSE {live - 1, live}

\* RawTCP.close: state CLOSED, buffer emptied, socket shut down and dropped.
close_reopen ==
    /\ tstate' = OPENING
    /\ buffer' = <<>>
    /\ sock' = None
    /\ live' = live
close ==
    /\ tstate' = CLOSED
    /\ buffer' = <<>>
    /\ sock' = None
    /\ live' \in shutdown_close

\* The call ends: nothing is in progress any more.
Ended(op, pre, result, io) ==
    /\ tpc' = "idle"
    /\ cur' = NoCall
    /\ budget' = NoTimeout
    /\ elapsed' = 0
    /\ last' = [op |-> op, pre |-> pre, result |-> result, io |-> io]

\* close_on_error: `except BaseException: self.close(); raise`
Failed_keeps_open(op, pre, fault) ==
    /\ Ended(op, pre, fault, TRUE)
    /\ UNCHANGED <<tstate, buffer, sock, live, wire, got, rawread, eol,
                   ttimeout, stream0>>
Failed(op, pre, fault) ==
    /\ close
    /\ Ended(op, pre, fault, TRUE)
    /\ UNCHANGED <<wire, got, rawread, eol, ttimeout, stream0>>

\* check_open refused the call: the fault leaves, the state is what
\* _wait_open left.
Refused(op, co) ==
    /\ tstate' = co.state
    /\ Ended(op, tstate, co.fault, co.io)
    /\ UNCHANGED <<buffer, sock, live, wire, got, rawread, eol, ttimeout, stream0>>

\* `timeout = self.timeout if timeout is None else timeout`
effective(t) == IF t = NoTimeout THEN ttimeout ELSE t

Contents == {<<>>, <<"A">>, <<"A", "B">>}
Eols == {<<"\n">>, <<"\r", "\n">>}

RECURSIVE Streams(_, _)
Streams(e, n) ==
    IF n = 0 THEN {<<>>}
    ELSE {<<>>} \cup {c \o e \o s : c \in Contents, s \in Streams(e, n - 1)}

TransportInit ==
    /\ tstate = OPENING
    /\ buffer = <<>>
    /\ sock = "socket"
    /\ eol \in Eols
    /\ ttimeout \in Timeouts
    /\ stream0 \in Streams(eol, MaxLines)
    /\ wire = stream0
    /\ tpc = "idle"
    /\ cur = NoCall
    /\ budget = NoTimeout
    /\ elapsed = 0
    /\ got = <<>>
    /\ rawread = FALSE
    /\ last = NoLast
    /\ live = 1

\* sendall(data): every byte is sent, or the socket reports a fault.
SendOutcomes == {"ok", "BrokenPipe"}

\* RawTCP._read after its decorator: hand over the buffer if there is one,
\* else one select and one recv: bytes, no bytes in time, b"" from a peer
\* that closed, or a fault raised by recv.
read_body(op, pre, io, t) ==
    IF buffer # <<>>
    THEN /\ buffer' = <<>>
         /\ tstate' = OPEN
         /\ rawread' = TRUE
         /\ Ended(op, pre, "ok", io)
         /\ UNCHANGED <<sock, live, wire, got, eol, ttimeout, stream0>>
    ELSE \/ /\ wire # <<>>
            /\ \E n \in 1..Min(MaxChunk, Len(wire)) :
                  /\ wire' = SubSeq(wire, n + 1, Len(wire))
                  /\ Ended(op, pre, "ok", TRUE)
            /\ tstate' = OPEN
            /\ rawread' = TRUE
            /\ UNCHANGED <<buffer, sock, live, got, eol, ttimeout, stream0>>
         \/ /\ effective(t) # NoTimeout
            /\ Failed(op, pre, "Timeout")
         \/ /\ wire = <<>>
            /\ Failed(op, pre, "ConnectionError")
         \/ Failed(op, pre, "ConnectionReset")

\* RawTCP._readline up to the loop over stream(): scan the buffer first.
readline_body(op, pre, io, t) ==
    LET p == partition(buffer, eol)
    IN  IF p.eo # <<>>
        THEN /\ buffer' = keep_left(p)
             /\ tstate' = OPEN
             /\ got' = Append(got, p.data \o p.eo)
             /\ Ended(op, pre, "ok", io)
             /\ UNCHANGED <<sock, live, wire, rawread, eol, ttimeout, stream0>>
        ELSE /\ tstate' = OPEN
             /\ tpc' = "stream"
             /\ cur' = [op |-> op, pre |-> pre, io |-> io,
                      timeout |-> effective(t)]
             /\ budget' = effective(t)
             /\ elapsed' = 0
             /\ UNCHANGED <<buffer, sock, live, wire, got, rawread, last, eol,
                            ttimeout, stream0>>

\* RawTCP.write, with check_open, for one outcome of the readiness wait and
\* of sendall
write(w, s) ==
    LET co == check_open(tstate, w)
    IN  IF ~co.ok THEN Refused("write", co)
        ELSE IF s # "ok" THEN Failed("write", tstate, s)
        ELSE /\ tstate' = OPEN
             /\ Ended("write", tstate, "ok", TRUE)
             /\ UNCHANGED <<buffer, sock, live, wire, got, rawread, eol,
                            ttimeout, stream0>>

\* RawTCP.read
read(w, t) ==
    LET co == check_open(tstate, w)
    IN  IF ~co.ok THEN Refused("read", co)
        ELSE read_body("read", tstate, co.io, t)

\* RawTCP.readline
readline(w, t) ==
    LET co == check_open(tstate, w)
    IN  IF ~co.ok THEN Refused("readline", co)
        ELSE readline_body("readline", tstate, co.io, t)

\* RawTCP.write_read
write_read(w, s, t) ==
    LET co == check_open(tstate, w)
    IN  IF ~co.ok THEN Refused("write_read", co)
        ELSE IF s # "ok" THEN Failed("write_read", tstate, s)
        ELSE read_body("write_read", tstate, TRUE, t)

\* RawTCP.write_readline
write_readline(w, s, t) ==
    LET co == check_open(tstate, w)
    IN  IF ~co.ok THEN Refused("write_readline", co)
        ELSE IF s # "ok" THEN Failed("write_readline", tstate, s)
        ELSE readline_body("write_readline", tstate, TRUE, t)

\* One turn of stream()'s loop and of the body of _readline's for loop:
\* select, the budget update, recv, append, partition.
stream ==
    \/ \* the socket is readable after e ticks and recv returns n bytes
       /\ wire # <<>>
       /\ \E n \in 1..Min(MaxChunk, Len(wire)),
             e \in 0..(IF budget = NoTimeout THEN MaxElapsed - elapsed
                       ELSE Min(budget[1], MaxElapsed - elapsed)) :
             LET after == IF budget = NoTimeout THEN NoTimeout
                          ELSE <<budget[1] - (0 - e)>>
                 buf == buffer \o SubSeq(wire, 1, n)
                 p == partition(buf, eol)
             IN  IF after # NoTimeout /\ after[1] <= 0
                 THEN Failed(cur.op, cur.pre, "Timeout")
                 ELSE /\ wire' = SubSeq(wire, n + 1, Len(wire))
                      /\ UNCHANGED <<tstate, sock, live, rawread, eol, ttimeout,
                                     stream0>>
                      /\ IF p.eo # <<>>
                         THEN /\ buffer' = keep_left(p)
                              /\ got' = Append(got, p.data \o p.eo)
                              /\ Ended(cur.op, cur.pre, "ok", TRUE)
                         ELSE /\ buffer' = buf
                              /\ budget' = after
                              /\ elapsed' = elapsed + e
                              /\ cur' = [cur EXCEPT !.io = TRUE]
                              /\ UNCHANGED <<tpc, got, last>>
    \/ \* select returns nothing within the budget
       /\ budget # NoTimeout
       /\ Failed(cur.op, cur.pre, "Timeout")
    \/ \* recv returns b"": the for loop ends, `else: raise ConnectionError`
       /\ wire = <<>>
       /\ Failed(cur.op, cur.pre, "ConnectionError")
    \/ \* recv raises
       /\ Failed(cur.op, cur.pre, "ConnectionReset")

\* The owner of the RawTCP calls write
Write ==
    /\ UNCHANGED beyondTransport
    /\ tpc = "idle"
    /\ \E w \in WaitOutcomes, s \in SendOutcomes : write(w, s)

\* The owner calls read
Read ==
    /\ UNCHANGED beyondTransport
    /\ tpc = "idle"
    /\ \E w \in WaitOutcomes, t \in Timeouts : read(w, t)

\* The owner calls readline
Readline ==
    /\ UNCHANGED beyondTransport
    /\ tpc = "idle"
    /\ \E w \in WaitOutcomes, t \in Timeouts : readline(w, t)

\* The owner calls write_read
WriteRead ==
    /\ UNCHANGED beyondTransport
    /\ tpc = "idle"
    /\ \E w \in WaitOutcomes, s \in SendOutcomes, t \in Timeouts :
          write_read(w, s, t)

\* The owner calls write_readline
WriteReadline ==
    /\ UNCHANGED beyondTransport
    /\ tpc = "idle"
    /\ \E w \in WaitOutcomes, s \in SendOutcomes, t \in Timeouts :
          write_readline(w, s, t)

\* The readline in progress goes once round its loop
StreamStep ==
    /\ UNCHANGED beyondTransport
    /\ tpc = "stream"
    /\ stream

\* RawTCP.close called by the owner
Close ==
    /\ UNCHANGED beyondTransport
    /\ tpc = "idle"
    /\ close
    /\ Ended("close", tstate, "ok", sock # None)
    /\ UNCHANGED <<wire, got, rawread, eol, ttimeout, stream0>>

TransportNext ==
    \/ Write
    \/ Read
    \/ Readline
    \/ WriteRead
    \/ WriteReadline
    \/ StreamStep
    \/ Close

(* ======================= RECONNECTING CLIENT =========================== *)

\* connections the client makes in one run, and lines the peer sends on each
MaxConnections == 2
ClientLines == 1

\* The operations TCP wraps with ensure_connection.
ClientOps == {"write", "write_read", "write_readline"}

\* The faults of the transport that are OSError but not socket.timeout.
OSErrors == {"OSError", "EBADF", "ConnectionRefused", "BrokenPipe",
             "ConnectionError", "ConnectionReset"}

\* The call in progress: the operation, the local made_connection, and for
\* the record: the counter when the call began, the RawTCP constructions and
\* the executions of the wrapped function so far, the outcome of the first
\* execution, connected() when the call began, how the call before ended.
NoClientCall ==
    [op |-> None, made_connection |-> FALSE, counter0 |-> 0, attempts |-> 0,
     ops |-> 0, first |-> None, existed |-> FALSE, after |-> None,
     written |-> 0]

\* A call that ended: what it was, what it returned or raised, by how much
\* the counter grew during it.
Finished(call, r, v) ==
    [call |-> call, result |-> r, value |-> v,
     counted |-> connection_counter - call.counter0]

NoClientLast ==
    [call |-> NoClientCall, result |-> None, value |-> <<>>, counted |-> 0]

\* TCP.connected
connected == rawtcp # None /\ tstate # CLOSED

\* create_connection: a socket whose connect is under way, or the fault of
\* getaddrinfo / connect_ex.  An endpoint that accepts connections gives a
\* socket.
ConnectOutcomes == IF reachable THEN {"socket"} ELSE {"socket", "OSError"}

\* sendall on a socket of the client: it cannot succeed while the endpoint
\* accepts no connection.
ClientSendOutcomes ==
    IF reachable THEN SendOutcomes ELSE SendOutcomes \ {"ok"}

\* RawTCP._wait_open in a call of the client: `timeout -= time.monotonic() -
\* self._connection_time` is negative once the timeout has run out since the
\* RawTCP was made, as it has when an earlier wait on it timed out, and select
\* raises ValueError for a negative timeout.
ClientWaitOutcomes ==
    IF tstate = OPENING /\ ttimeout # NoTimeout /\ expired
    THEN {"ValueError"}
    ELSE WaitOutcomes

\* RawTCP._write inside an operation of the client: 1 when check_open let
\* the operation run and sendall returned, so the command went out on the
\* connection; 0 otherwise.
sent(w, s) == IF check_open(tstate, w).ok /\ s = "ok" THEN 1 ELSE 0

\* The replies owed once the call has gone on: one fewer when it returned
\* a line.
line_returned(n, lines) ==
    IF Len(lines) > Len(got) /\ n > 0 THEN n - 1 ELSE n

\* RawTCP.__init__ once create_connection returned a socket.  The peer
\* sends stream0 on every connection.
NewTransport ==
    /\ tstate' = OPENING
    /\ buffer' = <<>>
    /\ sock' = "socket"
    /\ live' = live + 1
    /\ wire' = stream0
    /\ got' = <<>>
    /\ rawread' = FALSE
    /\ tpc' = "idle"
    /\ cur' = NoCall
    /\ budget' = NoTimeout
    /\ elapsed' = 0
    /\ last' = NoLast
    /\ UNCHANGED <<eol, ttimeout, stream0>>

\* _ensure_connected line 236: `self.connection_counter += 1`
count_connection_skipped(c) == c
count_connection(c) == c + 1

\* ensure_connection: the execution of f that ended is the one inside `try`
\* and its fault is caught by `except OSError` (Timeout was caught before).
handled_always == last.result \in OSErrors
handled == ccall.ops = 1 /\ last.result \in OSErrors

\* What the wrapped function returned: the line, for write_readline.
Returned(op, r) ==
    IF op = "write_readline" /\ r = "ok" THEN <<got[Len(got)]>> ELSE <<>>

\* A TCP call up to the call of f: `made_connection =
\* self._ensure_connected()`.  A fault of RawTCP(...) leaves the call from
\* here, before the counter is touched.
ClientCall ==
    /\ UNCHANGED beyondClient
    /\ cpc = "idle"
    /\ connection_counter < MaxConnections
    /\ \E op \in ClientOps :
          LET call == [op |-> op, made_connection |-> ~connected,
                       counter0 |-> connection_counter,
                       attempts |-> IF connected THEN 0 ELSE 1,
                       ops |-> 0, first |-> None, existed |-> connected,
                       written |-> 0,
                       after |-> clast.result]
          IN  IF connected
              THEN /\ cpc' = "call"
                   /\ ccall' = call
                   /\ UNCHANGED <<tvars, rawtcp, connection_counter,
                                  reachable, clast, owed, expired>>
              ELSE \E c \in ConnectOutcomes :
                      IF c = "socket"
                      THEN /\ NewTransport
                           /\ rawtcp' = "RawTCP"
                           /\ connection_counter' =
                                  count_connection(connection_counter)
                           /\ cpc' = "call"
                           /\ ccall' = call
                           /\ owed' = 0
                           /\ expired' = FALSE
                           /\ UNCHANGED <<reachable, clast>>
                      ELSE /\ clast' = Finished(call, c, <<>>)
                           /\ UNCHANGED <<tvars, rawtcp, connection_counter,
                                          reachable, cpc, ccall, owed,
                                          expired>>

\* `f(self, *args, **kwargs)`: the operation of the RawTCP, to its end or
\* into the loop of readline.
ClientInvoke ==
    /\ UNCHANGED beyondClient
    /\ cpc = "call"
    /\ \E w \in ClientWaitOutcomes, s \in ClientSendOutcomes, t \in Timeouts :
          /\ CASE ccall.op = "write" -> write(w, s)
               [] ccall.op = "write_read" -> write_read(w, s, t)
               [] ccall.op = "write_readline" -> write_readline(w, s, t)
          /\ owed' = line_returned(
                        IF ccall.op = "write_readline"
                               /\ check_open(tstate, w).ok /\ s = "ok"
                        THEN Min(owed + 1, 2) ELSE owed, got')
          /\ ccall' = [ccall EXCEPT !.ops = @ + 1,
                                    !.written = @ + sent(w, s)]
          /\ expired' = (expired \/ (tstate = OPENING
                                         /\ w \in {"Timeout", "ValueError"}))
    /\ cpc' = IF tpc' = "idle" THEN "ended" ELSE "stream"
    /\ UNCHANGED <<rawtcp, connection_counter, reachable, clast>>

\* The readline in progress inside f goes once round its loop.
ClientStream ==
    /\ UNCHANGED beyondClient
    /\ cpc = "stream"
    /\ stream
    /\ owed' = line_returned(owed, got')
    /\ cpc' = IF tpc' = "idle" THEN "ended" ELSE "stream"
    /\ UNCHANGED <<rawtcp, connection_counter, reachable, ccall, clast,
                   expired>>

\* f returned, or raised what the wrapper does not handle: Timeout
\* (`except Timeout: raise`), a fault that is no OSError, any fault of the
\* second execution.
ClientReturn ==
    /\ UNCHANGED beyondClient
    /\ cpc = "ended"
    /\ ~handled
    /\ clast' = Finished([ccall EXCEPT !.first = IF ccall.ops = 1
                                                 THEN last.result ELSE @],
                         last.result, Returned(ccall.op, last.result))
    /\ cpc' = "idle"
    /\ ccall' = NoClientCall
    /\ UNCHANGED <<tvars, rawtcp, connection_counter, reachable, owed,
                   expired>>

\* `except OSError: self.close(); if made_connection: raise`
ClientFault ==
    /\ UNCHANGED beyondClient
    /\ cpc = "ended"
    /\ handled
    /\ close
    /\ UNCHANGED <<eol, ttimeout, stream0, wire, tpc, cur, budget, elapsed,
                   got, rawread, last>>
    /\ IF ccall.made_connection
       THEN /\ clast' = Finished([ccall EXCEPT !.first = last.result],
                                 last.result, <<>>)
            /\ cpc' = "idle"
            /\ ccall' = NoClientCall
       ELSE /\ cpc' = "reconnect"
            /\ ccall' = [ccall EXCEPT !.first = last.result]
            /\ UNCHANGED clast
    /\ UNCHANGED <<rawtcp, connection_counter, reachable, owed, expired>>

\* `self._ensure_connected()` inside the handler: connected() is false after
\* close(), so a RawTCP is constructed; its fault leaves the call.
ClientReconnect ==
    /\ UNCHANGED beyondClient
    /\ cpc = "reconnect"
    /\ ~connected
    /\ \E c \in ConnectOutcomes :
          IF c = "socket"
          THEN /\ NewTransport
               /\ connection_counter' = count_connection(connection_counter)
               /\ cpc' = "call"
               /\ ccall' = [ccall EXCEPT !.attempts = @ + 1]
               /\ owed' = 0
               /\ expired' = FALSE
               /\ UNCHANGED clast
          ELSE /\ clast' = Finished([ccall EXCEPT !.attempts = @ + 1], c, <<>>)
               /\ cpc' = "idle"
               /\ ccall' = NoClientCall
               /\ UNCHANGED <<tvars, connection_counter, owed, expired>>
    /\ UNCHANGED <<rawtcp, reachable>>

\* TCP.close called by the owner: `if self._sock is not None:
\* self._sock.close()`
ClientClose ==
    /\ UNCHANGED beyondClient
    /\ cpc = "idle"
    /\ IF rawtcp # None
       THEN /\ close
            /\ UNCHANGED <<eol, ttimeout, stream0, wire, tpc, cur, budget,
                           elapsed, got, rawread, last>>
       ELSE UNCHANGED tvars
    /\ clast' = [NoClientLast EXCEPT !.call.op = "close", !.result = "closed"]
    /\ UNCHANGED <<rawtcp, connection_counter, reachable, cpc, ccall, owed,
                   expired>>

\* The runtime finalises a socket that RawTCP.close dropped without closing
\* it (`finally: self._sock = None` after shutdown raised): it is closed
\* once nothing refers to it any more, which may be at once or later (the
\* fault in flight refers to the frames of stream() and wait_open, whose
\* local `sock` is the socket).
Finalize ==
    /\ UNCHANGED beyondClient
    /\ live > (IF sock = None THEN 0 ELSE 1)
    /\ live' = live - 1
    /\ UNCHANGED <<tstate, buffer, sock, eol, ttimeout, stream0, wire, tpc,
                   cur, budget, elapsed, got, rawread, last>>
    /\ UNCHANGED cvars

ClientInit ==
    /\ rawtcp = None
    /\ connection_counter = 0
    /\ reachable \in BOOLEAN
    /\ cpc = "idle"
    /\ ccall = NoClientCall
    /\ clast = NoClientLast
    /\ owed = 0
    /\ expired = FALSE

\* No RawTCP exists yet; the timeout and the peer's stream are chosen, eol
\* is TCP's default.
NoTransport ==
    /\ tstate = CLOSED
    /\ buffer = <<>>
    /\ sock = None
    /\ eol = <<"\n">>
    /\ ttimeout \in Timeouts
    /\ stream0 \in Streams(eol, ClientLines)
    /\ wire = <<>>
    /\ tpc = "idle"
    /\ cur = NoCall
    /\ budget = NoTimeout
    /\ elapsed = 0
    /\ got = <<>>
    /\ rawread = FALSE
    /\ last = NoLast
    /\ live = 0

ClientNext ==
    \/ ClientCall
    \/ ClientInvoke
    \/ ClientStream
    \/ ClientReturn
    \/ ClientFault
    \/ ClientReconnect
    \/ ClientClose
    \/ Finalize

(* ============================== GROUP ================================== *)

\* motor handles in one list, commands one caller issues, and the timeout
\* (in polling intervals) it passes to wait_stopped
MaxMotors == 2
MaxCommands == 2
MaxWait == 1

Controllers == {"ctrl1", "ctrl2"}

\* A motor handle: its controller (motor._ctrl) and its axis.
Handles == [ctrl : Controllers, axis : Axes]

MotorLists == UNION {[1..n -> Handles] : n \in 0..MaxMotors}

NoObject == [kind |-> None]
NoResult == [type |-> None]

Raised(fault) == [type |-> "raised", fault |-> fault]

\* Group.__init__: `ctrls = set(motor._ctrl for motor in motors);
\* assert len(ctrls) == 1; self.controller = ctrls.pop(); self.motors =
\* motors` (assert statements enabled, as the interpreter runs by default)
Group_unchecked(motors) ==
    LET ctrls == {motors[i].ctrl : i \in DOMAIN motors}
    IN  IF ctrls = {} THEN Raised("KeyError")
        ELSE [type |-> "Group", controller |-> CHOOSE c \in ctrls : TRUE,
              motors |-> motors]
Group(motors) ==
    LET ctrls == {motors[i].ctrl : i \in DOMAIN motors}
    IN  IF Cardinality(ctrls) = 1
        THEN [type |-> "Group", controller |-> CHOOSE c \in ctrls : TRUE,
              motors |-> motors]
        ELSE Raised("AssertionError")

Groups == {Group(ms) : ms \in {m \in MotorLists : Group(m).type = "Group"}}

\* What group(obj) can be called with.
Objects ==
    {[kind |-> "Group", group |-> g] : g \in Groups}
    \cup {[kind |-> "IcePAPAxis", handle |-> h] : h \in Handles}
    \cup {[kind |-> "Sequence", motors |-> ms] : ms \in MotorLists}
    \cup {[kind |-> "Other"]}

\* group(obj).  In the IcePAPAxis branch line 95, `target_positions =
\* [target_positions]`, reads a local name nothing has bound.
group(obj) ==
    IF obj.kind = "Group" THEN obj.group
    ELSE IF obj.kind = "IcePAPAxis"
    THEN LET g == Group(<<obj.handle>>)
         IN  IF g.type = "Group" THEN Raised("UnboundLocalError") ELSE g
    ELSE IF obj.kind = "Sequence" THEN Group(obj.motors)
    ELSE Raised("TypeError")

\* Group.axes
axes(g) == {g.motors[i].axis : i \in DOMAIN g.motors}

\* Group.is_moving, for the Group the caller holds
Group_is_moving == \E a \in axes(gout) : moving[a]

\* The timeouts a caller passes to wait_stopped: None, 0, a positive one.
WaitTimeouts == {NoTimeout, <<0>>, <<MaxWait>>}

\* `if timeout:` -- false for None and for 0
truthy(t) == t # NoTimeout /\ t[1] # 0

\* The caller evaluates Group(motors).
Construct ==
    /\ UNCHANGED beyondGroup
    /\ gpc = "idle"
    /\ log = <<>>
    /\ \E ms \in MotorLists :
          /\ gin' = [kind |-> "motors", motors |-> ms]
          /\ gout' = Group(ms)
    /\ UNCHANGED <<gpc, wtimeout, welapsed, wmoving0, wslept, wresult,
                   moving, commanded, log>>

\* The caller evaluates group(obj).
Normalize ==
    /\ UNCHANGED beyondGroup
    /\ gpc = "idle"
    /\ log = <<>>
    /\ \E obj \in Objects :
          /\ gin' = obj
          /\ gout' = group(obj)
    /\ UNCHANGED <<gpc, wtimeout, welapsed, wmoving0, wslept, wresult,
                   moving, commanded, log>>

\* Group.start_move(positions) on the Group the caller holds.
GroupStartMove ==
    /\ UNCHANGED beyondGroup
    /\ gpc = "idle"
    /\ gout.type = "Group"
    /\ Len(log) < MaxCommands
    /\ moving' = [a \in Axes |-> a \in axes(gout) \/ moving[a]]
    /\ commanded' = [a \in Axes |-> a \in axes(gout) \/ commanded[a]]
    /\ log' = Append(log, "move")
    /\ UNCHANGED gvars

\* Group.stop() on the Group the caller holds.
GroupStopAxes ==
    /\ UNCHANGED beyondGroup
    /\ gpc = "idle"
    /\ gout.type = "Group"
    /\ Len(log) < MaxCommands
    /\ commanded' = [a \in Axes |-> a \notin axes(gout) /\ commanded[a]]
    /\ log' = Append(log, "group.stop")
    /\ UNCHANGED <<moving, gvars>>

\* Group.wait_stopped(timeout): `start = time.time()`
WaitStoppedCall ==
    /\ UNCHANGED beyondGroup
    /\ gpc = "idle"
    /\ gout.type = "Group"
    /\ \E t \in WaitTimeouts : wtimeout' = t
    /\ welapsed' = 0
    /\ wmoving0' = FALSE
    /\ wslept' = FALSE
    /\ wresult' = None
    /\ gpc' = "poll"
    /\ UNCHANGED <<gin, gout, moving, commanded, log>>

\* `while self.is_moving:` -- one test of the loop condition; `return True`
\* when it is false.
WaitStoppedTest ==
    /\ UNCHANGED beyondGroup
    /\ gpc = "poll"
    /\ IF Group_is_moving
       THEN gpc' = "sleep" /\ UNCHANGED wresult
       ELSE gpc' = "idle" /\ wresult' = "True"
    /\ wmoving0' = IF wslept THEN wmoving0 ELSE Group_is_moving
    /\ UNCHANGED <<gin, gout, wtimeout, welapsed, wslept, moving, commanded,
                   log>>

\* `time.sleep(interval); if timeout: elapsed = time.time() - start; if
\* elapsed > timeout: return False`
WaitStoppedInterval ==
    /\ UNCHANGED beyondGroup
    /\ gpc = "sleep"
    /\ wslept' = TRUE
    /\ welapsed' = Min(welapsed + 1, MaxWait + 1)
    /\ IF truthy(wtimeout) /\ welapsed' > wtimeout[1]
       THEN gpc' = "idle" /\ wresult' = "False"
       ELSE gpc' = "poll" /\ UNCHANGED wresult
    /\ UNCHANGED <<gin, gout, wtimeout, wmoving0, moving, commanded, log>>

GroupInit ==
    /\ gpc = "idle"
    /\ gin = NoObject
    /\ gout = NoResult
    /\ wtimeout = NoTimeout
    /\ welapsed = 0
    /\ wmoving0 = FALSE
    /\ wslept = FALSE
    /\ wresult = None

GroupNext ==
    \/ Construct
    \/ Normalize
    \/ GroupStartMove
    \/ GroupStopAxes
    \/ WaitStoppedCall
    \/ WaitStoppedTest
    \/ WaitStoppedInterval
    \/ AxisSettle

(* ========================= SPECIFICATIONS ============================== *)

\* The transport while only the motion scope is looked at.
TransportIdle ==
    /\ tstate = CLOSED
    /\ buffer = <<>>
    /\ sock = None
    /\ eol = <<"\n">>
    /\ ttimeout = NoTimeout
    /\ stream0 = <<>>
    /\ wire = <<>>
    /\ tpc = "idle"
    /\ cur = NoCall
    /\ budget = NoTimeout
    /\ elapsed = 0
    /\ got = <<>>
    /\ rawread = FALSE
    /\ last = NoLast
    /\ live = 0

\* The motion scope before it is entered, with the default arguments.
ScopeIdle ==
    /\ mpc = "constructed"
    /\ exc = None
    /\ propagated = None
    /\ sync_stop = TRUE
    /\ on_start_stop = "returns"
    /\ on_end_stop = "returns"
    /\ hookArg = "unset"
    /\ bodyStarts = 0

\* The controller with every axis at rest and no command sent.
ControllerIdle ==
    /\ moving = [a \in Axes |-> FALSE]
    /\ commanded = [a \in Axes |-> FALSE]
    /\ log = <<>>

\* The motion scope while only the transport is looked at.
MotionIdle ==
    /\ ScopeIdle
    /\ ControllerIdle
    /\ status = [a \in Axes |-> FALSE]
    /\ polled = FALSE
    /\ seenMoving = FALSE
    /\ observed = "unset"
    /\ start_positions = [a \in Axes |-> 0]
    /\ target_positions = [a \in Axes |-> 0]

\* The client while another part is looked at.
ClientIdle ==
    /\ rawtcp = None
    /\ connection_counter = 0
    /\ reachable = TRUE
    /\ cpc = "idle"
    /\ ccall = NoClientCall
    /\ clast = NoClientLast
    /\ owed = 0
    /\ expired = FALSE

\* The Group functions while another part is looked at.
GroupIdle ==
    /\ gpc = "idle"
    /\ gin = NoObject
    /\ gout = NoResult
    /\ wtimeout = NoTimeout
    /\ welapsed = 0
    /\ wmoving0 = FALSE
    /\ wslept = FALSE
    /\ wresult = None

\* No BackAndForth, while another part is looked at.
ShakeIdle ==
    /\ loop_nb = 0
    /\ ranges = [a \in Axes |-> 0]
    /\ initial_positions = [a \in Axes |-> 0]
    /\ motion = None
    /\ pos = [a \in Axes |-> 0]
    /\ goal = [a \in Axes |-> 0]
    /\ bop = "none"

\* No power guard and no flow, while another part is looked at.
PowerIdle ==
    /\ power = [a \in Axes |-> TRUE]
    /\ on = TRUE
    /\ to_power = {}
    /\ plog = <<>>
    /\ fpc = "idle"
    /\ flow = "none"
    /\ fexc = None

MotionSpecInit ==
    MotionInit /\ TransportIdle /\ ClientIdle /\ GroupIdle /\ ShakeIdle
    /\ PowerIdle

TransportSpecInit ==
    TransportInit /\ MotionIdle /\ ClientIdle /\ GroupIdle /\ ShakeIdle
    /\ PowerIdle

ClientSpecInit ==
    ClientInit /\ NoTransport /\ MotionIdle /\ GroupIdle /\ ShakeIdle
    /\ PowerIdle

ShakeSpecInit ==
    ShakeInit /\ ScopeIdle /\ ControllerIdle /\ TransportIdle /\ ClientIdle
    /\ GroupIdle /\ PowerIdle

ShakeSpec == ShakeSpecInit /\ [][ShakeNext]_vars

FlowSpecInit ==
    FlowInit /\ ScopeIdle /\ ControllerIdle /\ TransportIdle /\ ClientIdle
    /\ GroupIdle

FlowSpec == FlowSpecInit /\ [][FlowNext]_vars

\* A caller that goes on calling the client and never calls close(): every
\* call that has begun runs to its end, and after it the caller calls again.
PersistentNext ==
    \/ ClientCall
    \/ ClientInvoke
    \/ ClientStream
    \/ ClientReturn
    \/ ClientFault
    \/ ClientReconnect
    \/ Finalize

PersistentSpec ==
    /\ ClientSpecInit
    /\ [][PersistentNext]_vars
    /\ WF_vars(ClientCall)
    /\ WF_vars(ClientInvoke)
    /\ WF_vars(ClientStream)
    /\ WF_vars(ClientReturn)
    /\ WF_vars(ClientFault)
    /\ WF_vars(ClientReconnect)

MotionSpec == MotionSpecInit /\ [][MotionNext]_vars

TransportSpec == TransportSpecInit /\ [][TransportNext]_vars

ClientSpec == ClientSpecInit /\ [][ClientNext]_vars

GroupSpecInit ==
    GroupInit /\ MotionIdle /\ TransportIdle /\ ClientIdle /\ ShakeIdle
    /\ PowerIdle

GroupSpec == GroupSpecInit /\ [][GroupNext]_vars

\* A caller that enters the scope of a Motion and then keeps calling update()
\* and in_motion(), while the axes reach their targets: every axis that moves
\* comes to rest in the end, and the caller's loop keeps running.
SettleNext ==
    \/ Enter
    \/ Update
    \/ AxisSettle

SettleSpec ==
    /\ MotionSpecInit
    /\ [][SettleNext]_vars
    /\ WF_vars(Update)
    /\ WF_vars(AxisSettle)

(* ============================== CLAIMS ================================= *)

\* The hook calls, stop commands and waits of the log, without the moves.
StopEvents == SelectSeq(log, LAMBDA e : e # "move")

Count(e) == Cardinality({i \in DOMAIN log : log[i] = e})

\* The four steps of stop() in the order the documentation gives.
ExpectedStop ==
    <<"on_start_stop", "group.stop">>
    \o (IF sync_stop THEN <<"wait_stopped", "wait_stopped.return">> ELSE <<>>)
    \o <<"on_end_stop">>

IsPrefix(s, t) == Len(s) <= Len(t) /\ s = SubSeq(t, 1, Len(s))

\* Control is back with the caller of the scope, a fault in flight.
FaultLeft == mpc = "raised"

\* C1: when a fault is raised inside the scope, by the time a fault leaves the
\* scope Group.stop() was invoked exactly once and, with sync_stop set,
\* Group.wait_stopped() was called and has returned.
C1_FaultStopsOnce ==
    FaultLeft =>
        /\ Count("group.stop") = 1
        /\ sync_stop => Count("wait_stopped.return") = 1

\* C2 as stated: whenever control returns to the caller with the body's
\* fault, no axis is moving and none is still commanded to move, whatever the
\* configuration.
C2_NoAxisMovingAtReturn ==
    (FaultLeft /\ propagated = exc) =>
        \A a \in Axes : ~moving[a] /\ ~commanded[a]

\* C2 amended: whenever control returns to the caller with the body's fault,
\* no axis is still commanded to move, and with sync_stop set no axis is
\* moving.
C2_StoppedAtReturn ==
    (FaultLeft /\ propagated = exc) =>
        /\ \A a \in Axes : ~commanded[a]
        /\ sync_stop => \A a \in Axes : ~moving[a]

\* A synchronous stop has run to its end and the body's fault is with the
\* caller.
C2_Witness ==
    /\ FaultLeft
    /\ propagated = exc
    /\ sync_stop
    /\ Count("wait_stopped.return") = 1
    /\ bodyStarts = 1

\* C3: the steps of stop() happen in the documented order, and once a fault
\* has left the scope all of them have run, whatever the hooks raised.
C3_StopSequenceCompletes ==
    /\ IsPrefix(StopEvents, ExpectedStop)
    /\ FaultLeft => StopEvents = ExpectedStop

\* C4: the fault that leaves the scope is the body's fault, never a hook's.
C4_OriginalFaultPropagates ==
    FaultLeft => propagated = exc

\* The parts of C5 the code agrees with: before a fault no stop command and
\* no hook call; a normal exit returns without a fault; on_start_stop is
\* called with the body's fault.
C5_ExitPart ==
    /\ exc = None => StopEvents = <<>>
    /\ mpc = "returned" => exc = None /\ propagated = None
    /\ hookArg # "unset" <=> Count("on_start_stop") = 1
    /\ hookArg # "unset" => hookArg = exc /\ exc # None

\* C5 as stated: entering the scope issues no move command (the only move
\* commands are those of the body), and only a faulting exit runs the stop
\* sequence.
C5_EnterIssuesNoMove ==
    /\ Count("move") = bodyStarts
    /\ C5_ExitPart

\* C5 amended: entering the scope issues exactly one move command; a normal
\* exit issues no stop command and calls no hook; a faulting exit runs the
\* stop sequence with the fault passed to on_start_stop.
C5_EnterIssuesOneMove ==
    /\ mpc = "constructed" => log = <<>>
    /\ mpc # "constructed" => Count("move") = 1 + bodyStarts
    /\ C5_ExitPart

\* The scope was entered and left without a fault.
C5_Witness ==
    /\ mpc = "returned"
    /\ Count("move") = 1
    /\ StopEvents = <<>>

IOOps == {"write", "read", "readline", "write_read", "write_readline"}

\* C6: a readline, read or write_readline that found the transport OPEN and
\* ended with Timeout leaves it OPEN with its socket.
C6_TimeoutLeavesOpen ==
    (/\ last.op \in {"readline", "read", "write_readline"}
     /\ last.pre = OPEN
     /\ last.result = "Timeout"
     /\ tpc = "idle")
        => tstate = OPEN /\ sock # None

\* C7: an operation that ended with a fault other than Timeout leaves the
\* transport CLOSED.
C7_FaultCloses ==
    (/\ last.op \in IOOps
     /\ last.result \notin {"ok", "Timeout"}
     /\ tpc = "idle")
        => tstate = CLOSED

\* C8: the connection state only moves OPENING to OPEN or to CLOSED: never
\* from OPEN to OPENING, never out of CLOSED.
C8_StateTransitions ==
    [][/\ tstate = OPENING => tstate' \in {OPENING, OPEN, CLOSED}
       /\ tstate = OPEN => tstate' \in {OPEN, CLOSED}
       /\ tstate = CLOSED => tstate' = CLOSED]_vars

\* An operation opened the connection, a later one closed it, and one more
\* found it CLOSED.
C8_Witness ==
    /\ tstate = CLOSED
    /\ last.pre = CLOSED
    /\ Len(got) = 1

\* C9: an operation that finds the transport CLOSED fails with EBADF, has
\* touched no socket, and leaves the transport as it was.
C9_ClosedFailsAtOnce ==
    (last.op \in IOOps /\ last.pre = CLOSED) =>
        /\ last.result = "EBADF"
        /\ ~last.io
        /\ tstate = CLOSED
        /\ buffer = <<>>
        /\ sock = None
        /\ tpc = "idle"

\* A write_readline found the transport CLOSED.
C9_Witness ==
    /\ last.op = "write_readline"
    /\ last.pre = CLOSED
    /\ last.result = "EBADF"

\* The lines of a stream, cut after each delimiter, computed on the whole
\* stream at once.
RECURSIVE RefLines(_, _)
RefLines(s, e) ==
    LET ends == {k \in Len(e)..Len(s) : SubSeq(s, k - Len(e) + 1, k) = e}
    IN  IF ends = {} THEN <<>>
        ELSE LET k == CHOOSE x \in ends : \A y \in ends : x <= y
             IN  <<SubSeq(s, 1, k)>> \o RefLines(SubSeq(s, k + 1, Len(s)), e)

\* C10: as long as only readline calls take bytes from the connection, the
\* values they returned are the first lines of the stream, each with its
\* delimiter, in order, however recv cut the stream.
C10_LineFraming ==
    ~rawread => IsPrefix(got, RefLines(stream0, eol))

\* Two different lines were returned, the second straight from the buffer
\* with no socket read: one chunk carried the end of the first line and the
\* whole second line.
C10_Witness ==
    /\ ~rawread
    /\ Len(got) = 2
    /\ got[1] # got[2]
    /\ last.op = "readline"
    /\ last.pre = OPEN
    /\ ~last.io

\* C11: while a readline with timeout T waits in stream(), the remaining
\* budget is T less the time the partial reads took, and the call is over
\* (Timeout) once that time has reached T.
C11_BudgetBoundsWait ==
    (tpc = "stream" /\ cur.timeout # NoTimeout) =>
        /\ budget = <<cur.timeout[1] - elapsed>>
        /\ elapsed < cur.timeout[1]

\* C12: against an endpoint that accepts no connection, every call of the
\* client fails after exactly one connection attempt and has raised the
\* counter by exactly 1.
C12_OneAttemptPerFailingCall ==
    (~reachable /\ clast.call.op \in ClientOps) =>
        /\ clast.result # "ok"
        /\ clast.call.attempts = 1
        /\ clast.counted = 1

\* The second execution of the wrapped function has just returned to the
\* caller of the client.
RetryEnded ==
    /\ cpc = "idle"
    /\ clast.call.op \in ClientOps
    /\ clast.call.ops = 2
    /\ last.op = clast.call.op

\* C13: a call that found a connection, whose first execution raised a fault
\* other than Timeout, and whose reconnection and second execution succeeded,
\* returns the second execution's result (for write_readline the first line
\* the new connection delivers) and has raised the counter by exactly 1.
C13_RetryThenSucceed ==
    (/\ RetryEnded
     /\ clast.call.existed
     /\ clast.call.first \notin {None, "ok", "Timeout"}
     /\ last.result = "ok")
        => /\ clast.result = "ok"
           /\ clast.counted = 1
           /\ clast.call.op = "write_readline" =>
                  clast.value = <<RefLines(stream0, eol)[1]>>

\* A write_readline was retried on a new connection and returned its line.
C13_Witness ==
    /\ RetryEnded
    /\ clast.call.existed
    /\ clast.call.first = "ConnectionReset"
    /\ clast.call.op = "write_readline"
    /\ clast.result = "ok"
    /\ clast.value # <<>>

\* C14: a call whose first execution raised Timeout ends with that Timeout
\* after one execution and no reconnection, and the call that follows a
\* Timeout finds the connection still there and makes none.
C14_TimeoutKeepsConnection ==
    /\ clast.call.first = "Timeout" =>
          /\ clast.result = "Timeout"
          /\ clast.call.ops = 1
          /\ clast.counted = clast.call.attempts
          /\ clast.call.attempts = (IF clast.call.existed THEN 0 ELSE 1)
    /\ (cpc # "idle" /\ ccall.after = "Timeout") =>
          /\ ccall.existed
          /\ ~ccall.made_connection

\* C15: within one call the wrapped function runs at most twice and the
\* counter grows by at most 1; what the second execution returned or raised
\* is what the call returns or raises.
C15_OneRetryOneConnection ==
    /\ ccall.ops <= 2
    /\ clast.call.ops <= 2
    /\ cpc # "idle" => connection_counter - ccall.counter0 \in {0, 1}
    /\ clast.counted \in {0, 1}
    /\ clast.call.attempts <= 2
    /\ RetryEnded => clast.result = last.result

\* The second execution raised and its fault left the call, one connection
\* having been made.
C15_Witness ==
    /\ RetryEnded
    /\ clast.result = "ConnectionError"
    /\ clast.counted = 1
    /\ clast.call.attempts = 1

\* C16: at most one socket created by the client is open at any time.
C16_OneLiveSocket == live <= 1

\* C17: Group(motors) gives a Group exactly when the list is non-empty and
\* all its handles have the same controller: then the Group has that
\* controller and these motors; otherwise the call raises AssertionError and
\* gives nothing else.
C17_GroupConstruction ==
    gin.kind = "motors" =>
        LET ms == gin.motors
            same == Len(ms) > 0 /\ \A i \in DOMAIN ms : ms[i].ctrl = ms[1].ctrl
        IN  /\ gout.type = "Group" <=> same
            /\ same => gout = [type |-> "Group", controller |-> ms[1].ctrl,
                               motors |-> ms]
            /\ ~same => gout = Raised("AssertionError")

\* Group was called with two handles of different controllers and raised.
C17_Witness ==
    /\ gin.kind = "motors"
    /\ Len(gin.motors) = 2
    /\ gin.motors[1].ctrl # gin.motors[2].ctrl
    /\ gout = Raised("AssertionError")

\* C18: a wait_stopped(timeout=0) call tests Group.is_moving once and
\* returns without sleeping: True when that test found no axis moving, False
\* when it found one.
C18_ZeroTimeoutReturnsAtOnce ==
    wtimeout = <<0>> =>
        /\ gpc # "sleep"
        /\ ~wslept
        /\ wresult # None => wresult = (IF wmoving0 THEN "False" ELSE "True")

\* C19: group(obj) returns obj for a Group, the Group of the one handle for
\* a handle, the Group of the sequence for a sequence, and raises TypeError
\* for anything else.
C19_GroupNormalizes ==
    /\ gin.kind = "Group" => gout = gin.group
    /\ gin.kind = "IcePAPAxis" => gout = Group(<<gin.handle>>)
    /\ gin.kind = "Sequence" => gout = Group(gin.motors)
    /\ gin.kind = "Other" => gout = Raised("TypeError")

\* C20: once the move of a Motion is started, the loop of update() and
\* in_motion() calls comes to see in_motion() false, and from a state in
\* which it does, no status that update() stores has an axis moving.
C20_MotionSettles ==
    /\ (mpc = "body") ~> (polled /\ ~in_motion)
    /\ [][(polled /\ ~in_motion) => \A a \in Axes : ~status'[a]]_vars

\* update() returned a status with an axis moving, and a later one returned
\* a status with none: the move is over.
C20_Witness ==
    /\ mpc = "body"
    /\ polled
    /\ seenMoving
    /\ ~in_motion
    /\ \A a \in Axes : ~moving[a]

\* C21: Motion.in_motion() answers from the status update() stored last and
\* asks the controller nothing; the only step that changes Motion.status is
\* an update(), which sends no command, and no step at all changes
\* start_positions or target_positions: not start(), not in_motion(), not
\* displacements(), not stop().
C21_StatusOnlyByUpdate ==
    /\ [](observed # "unset" => (observed = "True" <=> \E a \in Axes : status[a]))
    /\ [][/\ status' # status =>
               /\ mpc = "body"
               /\ status' = get_states
               /\ log' = log
               /\ moving' = moving
           /\ start_positions' = start_positions
           /\ target_positions' = target_positions
           /\ displacements' = displacements]_vars

\* in_motion() answered "not moving" from the stored status while an axis
\* was moving after a move command: the answer is the stored one.
C21_Witness ==
    /\ observed = "False"
    /\ \E a \in Axes : moving[a]
    /\ log # <<>>
    /\ mpc = "body"

\* The direction of the leg that the latest start() began: the loop counter
\* is the number k of that call.
LegDirection == IF loop_nb % 2 = 1 THEN -1 ELSE 1

C23_UpdateRestartsAtRest ==
    /\ [](observed # "False")
    /\ [][(bop' = "update" /\ motion # None) =>
               IF \A a \in Axes : ~moving[a]
               THEN /\ loop_nb' = loop_nb + 1
                    /\ log' = Append(log, "move")
               ELSE /\ loop_nb' = loop_nb
                    /\ log' = log]_vars

\* An update() found the first leg at rest and started the second, and
\* in_motion() has answered since.
C23_Witness ==
    /\ loop_nb = 2
    /\ bop = "in_motion"
    /\ observed = "True"
    /\ log = <<"move", "move">>
    /\ \E a \in Axes : pos[a] # initial_positions[a]

\* C24: for every leg a BackAndForth has started and for each axis, the
\* distance from the leg's start position to its target is the configured
\* range, the value displacements() returns.
C24_LegCoversRange ==
    motion # None =>
        \A a \in Axes :
            abs(target_positions[a] - start_positions[a])
                = BackAndForth_displacements[a]

\* The with statement has left the power guard.
GuardLeft == fpc \in {"cleanup", "done"}

\* C25: when the block run inside ensure_power has raised, then once the
\* fault has left the guard every axis whose power the guard changed on entry
\* has the power it had before: the opposite of the desired value.
C25_RestoredOnFault ==
    (GuardLeft /\ fexc # None) => \A a \in to_power : power[a] = ~on

\* C26: ensure_power sends set_power only for the axes whose power differed
\* from the desired value at entry: on entry one command that gives them the
\* desired value, on a normal exit one that gives them the opposite; the
\* power of the other axes is never changed, and when no axis differed no
\* command is sent at all.
C26_OnlyDifferingAxes ==
    /\ [](\A i \in DOMAIN plog : plog[i].axes = to_power /\ to_power # {})
    /\ [](Len(plog) <= 2)
    /\ [][fpc = "begin" =>
               /\ to_power' = {a \in Axes : power[a] # on}
               /\ plog' = IF to_power' = {}
                          THEN <<>>
                          ELSE <<[axes |-> to_power', value |-> on]>>
               /\ \A a \in Axes : power'[a] = (IF a \in to_power' THEN on
                                                ELSE power[a])]_vars
    /\ [][(~GuardLeft /\ GuardLeft' /\ fexc' = None) =>
               /\ plog' = IF to_power = {}
                          THEN <<>>
                          ELSE Append(plog, [axes |-> to_power, value |-> ~on])
               /\ \A a \in Axes : power'[a] = (IF a \in to_power THEN ~on
                                                ELSE power[a])]_vars
    /\ [][fpc # "begin" /\ GuardLeft' = GuardLeft =>
               plog' = plog /\ power' = power]_vars

\* The guard was left normally after it had switched one axis and left the
\* other alone.
C26_Witness ==
    /\ fpc = "done"
    /\ fexc = None
    /\ Len(plog) = 2
    /\ to_power # {}
    /\ to_power # Axes

\* C28: in the shake flow no move command follows the stop command that the
\* fault-triggered stop sequence sent.
C28_NoMoveAfterStop ==
    flow = "pshake" =>
        \A i, j \in DOMAIN log :
            (i < j /\ log[i] = "group.stop") => log[j] # "move"

\* C29: in the move flows the motion scope returns normally, and the power
\* guard sends its restoring set_power, only when no axis is moving.
C29_LeftOnlyAtRest ==
    /\ [][(flow \in {"umove", "pmove"} /\ mpc # "returned"
                /\ mpc' = "returned") => \A a \in Axes : ~moving[a]]_vars
    /\ [][(flow \in {"umove", "pmove"} /\ fpc # "begin" /\ plog' # plog) =>
               \A a \in Axes : ~moving[a]]_vars

\* C27: on a connection whose commands were all written by write_readline
\* calls, and whose peer answers each command with one line, the line a
\* write_readline call returns is the reply to the command that call wrote:
\* when the call returns its line no reply is owed any more, so no reply to
\* an earlier command, whose read timed out or faulted, was waiting on the
\* connection.
C27_ReplyMatchesCommand ==
    (cpc = "ended" /\ ccall.op = "write_readline" /\ last.result = "ok"
        /\ ~rawread) => owed = 0

\* A write_readline call timed out or faulted after it had written its
\* command, and the next write_readline call has returned a line.
C27_Witness ==
    /\ cpc = "ended"
    /\ ccall.op = "write_readline"
    /\ last.result = "ok"
    /\ ~rawread
    /\ clast.call.op = "write_readline"
    /\ clast.result \in {"Timeout", "ConnectionReset", "ConnectionError"}
    /\ clast.call.first = clast.result
    /\ last.pre = OPENING

\* A call has just failed in the readiness wait of a connection that is
\* still OPENING: the wait timed out or reported the error of the socket.
WaitFailed ==
    /\ cpc = "ended"
    /\ tstate = OPENING
    /\ last.pre = OPENING
    /\ last.result \in {"Timeout", "ConnectionRefused"}

\* A call that began when the counter was n has made a connection attempt.
FreshAttempt(n) ==
    \/ connection_counter > n
    \/ /\ cpc = "idle"
       /\ clast.call.counter0 = n
       /\ clast.call.attempts > 0

\* C30: after a call of the client has failed in the readiness wait of an
\* OPENING connection, a later call makes a fresh connection attempt (as
\* long as the run has connections left to make).
C30_FreshAttemptFollows ==
    \A n \in 1..(MaxConnections - 1) :
        (WaitFailed /\ connection_counter = n) ~> FreshAttempt(n)

\* C31: one call of the client sends its command at most once: the bytes of
\* the command are written successfully on at most one connection, also
\* when the call went through the reconnection of ensure_connection.
C31_CommandSentOnce ==
    /\ ccall.written <= 1
    /\ clast.call.written <= 1

====
